---- MODULE Spec2Model ----
(***************************************************************************)
(* Cafeteria Management API (src/main.py, src/schemas.py).                 *)
(*                                                                         *)
(* The store holds four collections (menuitem, order, staff, inventory),   *)
(* each a sequence of documents in insertion (natural) order.  Every       *)
(* endpoint is one action that takes a request body and leaves the request *)
(* and its response on the wire; Reply takes them off.                     *)
(*                                                                         *)
(* Numbers.  A price is a float with any number of decimals; the model     *)
(* counts money handed to the handlers in units of 10^-5 dollar (so that   *)
(* price * quantity * 0.07 is a whole number of units) and money that has  *)
(* gone through round(x, 2) in cents (1 cent = 1000 units).  round(x, 2)   *)
(* of a value that is not halfway between two cents is the nearest cent;   *)
(* halfway, the binary value of the float decides (round(0.125, 2) is      *)
(* 0.12, round(0.375, 2) is 0.38, round(0.005, 2) is 0.01), so the model   *)
(* admits both neighbours.                                                 *)
(*                                                                         *)
(* Identifier strings.  [kind |-> "lower", n |-> k] is the 24-digit        *)
(* lower-case hex string of ObjectId number k, [kind |-> "upper", ...] the *)
(* same digits in upper case, [kind |-> "bad", ...] a string ObjectId()    *)
(* rejects.  Optional values are <<>> (None) or <<v>>.                     *)
(***************************************************************************)
EXTENDS Integers, Sequences, FiniteSets, TLC

VARIABLES menuitem, order, staff, inventory, nextId, request, response, upsert

vars == <<menuitem, order, staff, inventory, nextId, request, response, upsert>>
store == <<menuitem, order, staff, inventory, nextId>>

\* ---------------------------------------------------------------- bounds
MaxMenu == 2
MaxOrders == 1
MaxLines == 2
MaxStaff == 2
MaxInventory == 2
MaxClients == 2

None == <<>>
Some(x) == <<x>>

Range(s) == {s[i] : i \in DOMAIN s}

\* ------------------------------------------------------------ identifiers
\* str(ObjectId): always the lower-case hex form.
Str(o) == [kind |-> "lower", n |-> o]

Upper(o) == [kind |-> "upper", n |-> o]

BadId == [kind |-> "bad", n |-> 0]

\* ObjectId(id_str) raises unless id_str is 24 hex digits (either case).
ObjectIdRaises(id_str) == id_str.kind \notin {"lower", "upper"}

ObjectId(id_str) == id_str.n

\* oid(): the ObjectId, or HTTPException(400, "Invalid id").
oid_raises(id_str) == ObjectIdRaises(id_str)

oid(id_str) == ObjectId(id_str)

\* -------------------------------------------------------------- responses
NoBody == [none |-> TRUE]

HTTPException(op, status_code, detail, named) ==
    [op |-> op, status |-> status_code, detail |-> detail, named |-> named, body |-> NoBody]

\* An exception other than HTTPException leaving a handler: the framework's 500.
ServerError(op) ==
    [op |-> op, status |-> 500, detail |-> "Internal Server Error", named |-> None,
     body |-> NoBody]

Ok(op, status_code, body) ==
    [op |-> op, status |-> status_code, detail |-> "", named |-> None, body |-> body]

\* The exchange left on the wire by a handler.
Exchange(op, payload, r) ==
    /\ request' = Some([op |-> op, payload |-> payload])
    /\ response' = Some(r)

\* create_document(collection, model): insert with a fresh _id, return str(_id).
create_document(coll, doc) == Append(coll, [doc EXCEPT !._id = nextId])

\* ---------------------------------------------------------------- schemas
TaxPercent == 7
PinMinLength == 4
PinMaxLength == 8

\* Menuitem: price >= 0.
MenuitemValid(p) == p.price >= 0

\* Staff: 4 <= len(pin) <= 8.
StaffValid(s) == Len(s.pin) >= PinMinLength /\ Len(s.pin) <= PinMaxLength

\* Order: subtotal >= 0, tax >= 0, total >= 0.
OrderValid(subtotal, tax, total) == subtotal >= 0 /\ tax >= 0 /\ total >= 0

\* round(x, 2), x in units of 10^-5, the results it may give in cents.
round2(x) ==
    LET lo == x \div 1000
        r == x % 1000
    IN IF r < 500 THEN {lo} ELSE IF r > 500 THEN {lo + 1} ELSE {lo, lo + 1}

\* ------------------------------------------------------------------- menu
\* Well-typed MenuCreate bodies: 10.00, 0.024, 0.125 and -1.00 dollars.
MenuCreates ==
    { [title |-> "tea", description |-> None, price |-> 1000000, category |-> None],
      [title |-> "bun", description |-> None, price |-> 2400, category |-> None],
      [title |-> "jam", description |-> None, price |-> 12500, category |-> None],
      [title |-> "void", description |-> None, price |-> 0 - 100000, category |-> None] }

\* POST /api/menu
create_menu_item(payload) ==
    /\ request = None
    /\ IF ~MenuitemValid(payload)
       THEN /\ Exchange("create_menu_item", payload, ServerError("create_menu_item"))
            /\ UNCHANGED <<store, upsert>>
       ELSE /\ Len(menuitem) < MaxMenu
            /\ menuitem' = create_document(menuitem,
                  [_id |-> 0, title |-> payload.title, description |-> payload.description,
                   price |-> payload.price, category |-> payload.category,
                   available |-> TRUE])
            /\ nextId' = nextId + 1
            /\ Exchange("create_menu_item", payload,
                  Ok("create_menu_item", 201, [id |-> Str(nextId)]))
            /\ UNCHANGED <<order, staff, inventory, upsert>>

\* ----------------------------------------------------------------- orders
Quantities == {0 - 1, 0, 3}

\* Lines naming ObjectId 1 or 2 in str() form with every quantity, and lines
\* naming ObjectId 1 in upper case or no ObjectId at all.
OrderItems ==
    [menu_item_id : {Str(1), Str(2)}, quantity : Quantities]
        \cup [menu_item_id : {Upper(1), BadId}, quantity : {3}]

OrderCreates ==
    [staff_id : {None, Some(BadId), Some(Str(1))},
     items : UNION {[1..k -> OrderItems] : k \in 0..MaxLines},
     note : {None}]

\* {str(d["_id"]): d for d in db["menuitem"].find({"_id": {"$in": ids}})}
menu_map(ids) ==
    LET found == {d \in Range(menuitem) : d._id \in Range(ids)}
    IN [k \in {Str(d._id) : d \in found} |-> CHOOSE d \in found : Str(d._id) = k]

\* The lines whose menu_map.get(it.menu_item_id) is None.
missing_lines(items, m) == {i \in DOMAIN items : items[i].menu_item_id \notin DOMAIN m}

\* The loop raising at the last missing line instead of the first.
last_missing(missing) == CHOOSE i \in missing : \A j \in missing : i >= j

\* The line at which the loop raises: the first one missing.
first_missing(missing) == CHOOSE i \in missing : \A j \in missing : i <= j

\* subtotal += float(m["price"]) * int(it.quantity), over the lines in order.
RECURSIVE line_totals(_, _)
line_totals(items, m) ==
    IF items = <<>> THEN 0
    ELSE m[items[1].menu_item_id].price * items[1].quantity + line_totals(Tail(items), m)

item_lines(items, m) ==
    [i \in DOMAIN items |->
        [menu_item_id |-> items[i].menu_item_id, quantity |-> items[i].quantity,
         price |-> m[items[i].menu_item_id].price, title |-> m[items[i].menu_item_id].title]]

\* The tax taken from the subtotal after its rounding to 2 decimals.
order_tax_of_rounded(subtotal) == UNION {round2(rsub * 10 * TaxPercent) : rsub \in round2(subtotal)}

\* tax = round(subtotal * 0.07, 2), of the subtotal as accumulated.
order_tax(subtotal) == round2((subtotal * TaxPercent) \div 100)

\* total = round(subtotal + tax, 2), of the subtotal as accumulated.
order_total(subtotal, tax) == round2(subtotal + tax * 1000)

\* POST /api/orders
create_order(payload) ==
    LET items == payload.items
    IN
    /\ request = None
    /\ IF \E i \in DOMAIN items : oid_raises(items[i].menu_item_id)
       THEN /\ Exchange("create_order", payload,
                  HTTPException("create_order", 400, "Invalid id", None))
            /\ UNCHANGED <<store, upsert>>
       ELSE
         LET ids == [i \in DOMAIN items |-> oid(items[i].menu_item_id)]
             m == menu_map(ids)
             missing == missing_lines(items, m)
         IN IF missing # {}
            THEN /\ Exchange("create_order", payload,
                       HTTPException("create_order", 400, "Menu item not found",
                                     Some(items[first_missing(missing)].menu_item_id)))
                 /\ UNCHANGED <<store, upsert>>
            ELSE
              \* Each round() picks its own neighbour when its argument is halfway.
              LET subtotal == line_totals(items, m)
              IN \E tax \in order_tax(subtotal) :
                 \E total \in order_total(subtotal, tax) :
                 \E rsub \in round2(subtotal) :
                   IF ~OrderValid(rsub, tax, total)
                   THEN /\ Exchange("create_order", payload, ServerError("create_order"))
                        /\ UNCHANGED <<store, upsert>>
                   ELSE /\ Len(order) < MaxOrders
                        /\ order' = create_document(order,
                              [_id |-> 0, staff_id |-> payload.staff_id,
                               items |-> item_lines(items, m), subtotal |-> rsub,
                               tax |-> tax, total |-> total, status |-> "open",
                               note |-> payload.note])
                        /\ nextId' = nextId + 1
                        /\ Exchange("create_order", payload,
                              Ok("create_order", 201,
                                 [id |-> Str(nextId), subtotal |-> rsub, tax |-> tax,
                                  total |-> total]))
                        /\ UNCHANGED <<menuitem, staff, inventory, upsert>>

\* ------------------------------------------------------------------ staff
\* A pin is the sequence of its characters.
Pin1234 == <<"1", "2", "3", "4">>
Pin5678 == <<"5", "6", "7", "8">>
Pin123 == <<"1", "2", "3">>
Pin123456789 == <<"1", "2", "3", "4", "5", "6", "7", "8", "9">>

StaffCreates ==
    { [name |-> "ann", role |-> "cashier", pin |-> Pin1234],
      [name |-> "bob", role |-> "chef", pin |-> Pin1234],
      [name |-> "cyd", role |-> "chef", pin |-> Pin123],
      [name |-> "dee", role |-> "manager", pin |-> Pin123456789] }

StaffLogins == [pin : {Pin1234, Pin5678, Pin123}]

\* Staff records the store may hold before the process starts: no handler
\* writes is_active = false, so a deactivated record comes from outside.
SeedStaff ==
    { <<>>,
      << [_id |-> 1, name |-> "old", role |-> "manager", pin |-> Pin1234,
          is_active |-> FALSE] >> }

\* POST /api/staff
create_staff(s) ==
    /\ request = None
    /\ IF ~StaffValid(s)
       THEN /\ Exchange("create_staff", s, ServerError("create_staff"))
            /\ UNCHANGED <<store, upsert>>
       ELSE /\ Len(staff) < MaxStaff
            /\ staff' = create_document(staff,
                  [_id |-> 0, name |-> s.name, role |-> s.role, pin |-> s.pin,
                   is_active |-> TRUE])
            /\ nextId' = nextId + 1
            /\ Exchange("create_staff", s, Ok("create_staff", 201, [id |-> Str(nextId)]))
            /\ UNCHANGED <<menuitem, order, inventory, upsert>>

\* The lookup by pin alone, is_active left out of the filter.
find_one_staff_any(pin) ==
    LET hits == {i \in DOMAIN staff : staff[i].pin = pin}
    IN IF hits = {} THEN None
       ELSE Some(staff[CHOOSE i \in hits : \A j \in hits : i <= j])

\* db["staff"].find_one({"pin": pin, "is_active": True}): the first match, or None.
find_one_staff(pin) ==
    LET hits == {i \in DOMAIN staff : staff[i].pin = pin /\ staff[i].is_active}
    IN IF hits = {} THEN None
       ELSE Some(staff[CHOOSE i \in hits : \A j \in hits : i <= j])

\* POST /api/auth/login
login(l) ==
    LET doc == find_one_staff(l.pin)
    IN
    /\ request = None
    /\ IF doc = None
       THEN Exchange("login", l, HTTPException("login", 401, "Invalid PIN", None))
       ELSE Exchange("login", l,
               Ok("login", 200,
                  [id |-> Str(doc[1]._id), name |-> doc[1].name, role |-> doc[1].role]))
    /\ UNCHANGED <<store, upsert>>

\* -------------------------------------------------------------- inventory
\* Request bodies; unit and reorder_level may be left out.
InventoryBodies ==
    { [sku |-> "milk", quantity |-> 10, unit |-> Some("L"), reorder_level |-> Some(5)],
      [sku |-> "milk", quantity |-> 20, unit |-> None, reorder_level |-> None],
      [sku |-> "rice", quantity |-> 10, unit |-> Some("kg"), reorder_level |-> None],
      [sku |-> "rice", quantity |-> 0 - 5, unit |-> None, reorder_level |-> Some(5)] }

\* InventoryUpsert: unit defaults to "unit", reorder_level to None.
InventoryUpsert(body) ==
    [sku |-> body.sku, quantity |-> body.quantity,
     unit |-> IF body.unit = None THEN "unit" ELSE body.unit[1],
     reorder_level |-> body.reorder_level]

\* The lookup by a field no record has: it never finds one.
find_one_sku_none(sku) == None

\* db["inventory"].find_one({"sku": sku}): the first match, or None.
find_one_sku(sku) ==
    LET hits == {i \in DOMAIN inventory : inventory[i].sku = sku}
    IN IF hits = {} THEN None
       ELSE Some(inventory[CHOOSE i \in hits : \A j \in hits : i <= j])

\* The update with reorder_level left out of $set.
update_one_no_reorder(id, item) ==
    [i \in DOMAIN inventory |->
        IF inventory[i]._id = id
        THEN [inventory[i] EXCEPT !.quantity = item.quantity, !.unit = item.unit]
        ELSE inventory[i]]

\* update_one({"_id": id}, {"$set": {quantity, unit, reorder_level}})
update_one(id, item) ==
    [i \in DOMAIN inventory |->
        IF inventory[i]._id = id
        THEN [inventory[i] EXCEPT !.quantity = item.quantity, !.unit = item.unit,
                                  !.reorder_level = item.reorder_level]
        ELSE inventory[i]]

\* The update branch without its return: the insert follows it too.
upsert_write_fallthrough(item, existing) ==
    LET updated == IF existing # None THEN update_one(existing[1]._id, item) ELSE inventory
    IN [inventory |-> Append(updated,
                         [_id |-> nextId, sku |-> item.sku, quantity |-> item.quantity,
                          unit |-> item.unit, reorder_level |-> item.reorder_level]),
        id |-> Str(nextId), created |-> TRUE]

\* What follows the lookup: the update of the record found, or the insert.
upsert_write(item, existing) ==
    IF existing # None
    THEN [inventory |-> update_one(existing[1]._id, item),
          id |-> Str(existing[1]._id), created |-> FALSE]
    ELSE [inventory |-> create_document(inventory,
                           [_id |-> 0, sku |-> item.sku, quantity |-> item.quantity,
                            unit |-> item.unit, reorder_level |-> item.reorder_level]),
          id |-> Str(nextId), created |-> TRUE]

\* POST /api/inventory, with no other request between its lookup and its write.
upsert_inventory(body) ==
    LET item == InventoryUpsert(body)
        w == upsert_write(item, find_one_sku(item.sku))
    IN
    /\ request = None
    /\ w.created => Len(inventory) < MaxInventory
    /\ inventory' = w.inventory
    /\ nextId' = IF w.created THEN nextId + 1 ELSE nextId
    /\ Exchange("upsert_inventory", body, Ok("upsert_inventory", 201, [id |-> w.id]))
    /\ UNCHANGED <<menuitem, order, staff, upsert>>

\* POST /api/inventory served to several clients at once: each request is a
\* lookup step and, later, a write step; upsert[c] is client c's request.
Clients == 1..MaxClients

Idle == [pc |-> "idle", item |-> None, existing |-> None, id |-> None]

upsert_lookup(c, body) ==
    LET item == InventoryUpsert(body)
    IN
    /\ upsert[c].pc \in {"idle", "done"}
    /\ upsert' = [upsert EXCEPT ![c] = [pc |-> "found", item |-> Some(item),
                                        existing |-> find_one_sku(item.sku), id |-> None]]
    /\ UNCHANGED <<store, request, response>>

upsert_respond(c) ==
    LET w == upsert_write(upsert[c].item[1], upsert[c].existing)
    IN
    /\ upsert[c].pc = "found"
    /\ w.created => Len(inventory) < MaxInventory
    /\ inventory' = w.inventory
    /\ nextId' = IF w.created THEN nextId + 1 ELSE nextId
    /\ upsert' = [upsert EXCEPT ![c] = [@ EXCEPT !.pc = "done", !.id = Some(w.id)]]
    /\ UNCHANGED <<menuitem, order, staff, request, response>>

\* --------------------------------------------------------------- the wire
Reply ==
    /\ request # None
    /\ request' = None
    /\ response' = None
    /\ UNCHANGED <<store, upsert>>

\* ------------------------------------------------------- specifications
Init ==
    /\ menuitem = <<>>
    /\ order = <<>>
    /\ staff \in SeedStaff
    /\ inventory = <<>>
    /\ nextId = Len(staff) + 1
    /\ request = None
    /\ response = None
    /\ upsert = [c \in Clients |-> Idle]

\* The store empty at the start.
InitEmpty == Init /\ staff = <<>>

MenuRequest == \E p \in MenuCreates : create_menu_item(p)
OrderRequest == \E p \in OrderCreates : create_order(p)
StaffRequest == \E s \in StaffCreates : create_staff(s)
LoginRequest == \E l \in StaffLogins : login(l)
InventoryRequest == \E b \in InventoryBodies : upsert_inventory(b)
InventoryLookup == \E c \in Clients : \E b \in InventoryBodies : upsert_lookup(c, b)
InventoryWrite == \E c \in Clients : upsert_respond(c)

\* A handler writes one collection and reads at most one other (create_order
\* reads menuitem), so the endpoints are explored in groups: each group's
\* specification leaves the collections of the others as Init set them.

\* Menu and orders.
NextOrders == MenuRequest \/ OrderRequest \/ Reply

SpecOrders == InitEmpty /\ [][NextOrders]_vars

\* The endpoints that create menu items and staff, and the login.
NextStaff == MenuRequest \/ StaffRequest \/ LoginRequest \/ Reply

SpecStaff == Init /\ [][NextStaff]_vars

\* Inventory, one request at a time.
NextInventory == MenuRequest \/ InventoryRequest \/ Reply

SpecInventory == InitEmpty /\ [][NextInventory]_vars

\* Inventory, the requests of several clients interleaved.
NextRace == InventoryLookup \/ InventoryWrite

SpecRace == InitEmpty /\ [][NextRace]_vars

\* The whole API.
Next == NextOrders \/ NextStaff \/ NextInventory \/ NextRace

Spec == Init /\ [][Next]_vars

\* ------------------------------------------------------------- properties
\* The state a handler leaves: its request and response on the wire.
Handled(op) == request # None /\ request[1].op = op

\* The step a handler takes.
Handles(op) == request = None /\ request' # None /\ request'[1].op = op

MenuIds == {d._id : d \in Range(menuitem)}

PriceOf(id_str) == (CHOOSE d \in Range(menuitem) : Str(d._id) = id_str).price

\* Sum of price * quantity over the lines, in units of 10^-5.
RECURSIVE SumPQ(_)
SumPQ(items) ==
    IF items = <<>> THEN 0
    ELSE PriceOf(items[1].menu_item_id) * items[1].quantity + SumPQ(Tail(items))

\* c cents is x units rounded to 2 decimals (either neighbour when halfway).
Rounds(c, x) == 2 * (x - 1000 * c) <= 1000 /\ 2 * (1000 * c - x) <= 1000

OrderCreated == Handled("create_order") /\ response[1].status = 201

Returned(o) ==
    response[1].body = [id |-> Str(o._id), subtotal |-> o.subtotal, tax |-> o.tax,
                        total |-> o.total]

\* C1 as stated: the amounts returned and persisted for a created order are
\* subtotal = round(sum of price * quantity, 2), tax = round(0.07 * that rounded
\* subtotal, 2) and total = round(that subtotal + tax, 2).
C1_TaxOfRoundedSubtotal ==
    OrderCreated =>
        LET o == order[Len(order)]
        IN /\ Returned(o)
           /\ Rounds(o.subtotal, SumPQ(request[1].payload.items))
           /\ Rounds(o.tax, o.subtotal * 10 * TaxPercent)
           /\ Rounds(o.total, (o.subtotal + o.tax) * 1000)

\* C1 as amended: subtotal = round(S, 2), tax = round(0.07 * S, 2) and
\* total = round(S + tax, 2), where S is the sum of price * quantity before any
\* rounding; the response returns the persisted amounts.
C1_TaxOfAccumulatedSubtotal ==
    OrderCreated =>
        LET o == order[Len(order)]
            S == SumPQ(request[1].payload.items)
        IN /\ Returned(o)
           /\ Rounds(o.subtotal, S)
           /\ Rounds(o.tax, (S * TaxPercent) \div 100)
           /\ Rounds(o.total, S + o.tax * 1000)

\* One item priced 10.00 ordered 3 times: 30.00, 2.10, 32.10.
C1_Witness ==
    /\ OrderCreated
    /\ Len(request[1].payload.items) = 1
    /\ request[1].payload.items[1].quantity = 3
    /\ PriceOf(request[1].payload.items[1].menu_item_id) = 1000000
    /\ order[Len(order)].subtotal = 3000
    /\ order[Len(order)].tax = 210
    /\ order[Len(order)].total = 3210

\* A line names a well-formed identifier of no menu item.
NotInMenu(id_str) == ~oid_raises(id_str) /\ oid(id_str) \notin MenuIds

\* C2 as stated: a create_order request with a line whose well-formed
\* menu_item_id is not in the menuitem collection is answered 400 naming that
\* id, whatever its other lines, and leaves every collection as it was.
C2_NamesEveryMissingId ==
    [][Handles("create_order") =>
        LET items == request'[1].payload.items
        IN \A i \in DOMAIN items :
              NotInMenu(items[i].menu_item_id) =>
                 /\ response'[1].status = 400
                 /\ response'[1].detail = "Menu item not found"
                 /\ response'[1].named = Some(items[i].menu_item_id)
                 /\ UNCHANGED store]_vars

\* C2 as amended: such a request is answered 400 and leaves every collection
\* as it was; the answer is "Invalid id" when some line's identifier is
\* malformed, and otherwise names the first line, in request order, whose
\* menu_item_id is not the str() form of a stored menu item's id.
C2_MissingIdRejected ==
    [][Handles("create_order") =>
        LET items == request'[1].payload.items
            malformed == {i \in DOMAIN items : oid_raises(items[i].menu_item_id)}
            unknown == {i \in DOMAIN items :
                           items[i].menu_item_id \notin {Str(n) : n \in MenuIds}}
        IN (\E i \in DOMAIN items : NotInMenu(items[i].menu_item_id)) =>
              /\ response'[1].status = 400
              /\ UNCHANGED store
              /\ IF malformed # {}
                 THEN response'[1].detail = "Invalid id" /\ response'[1].named = None
                 ELSE /\ response'[1].detail = "Menu item not found"
                      /\ \E i \in unknown :
                            /\ \A j \in unknown : i <= j
                            /\ response'[1].named = Some(items[i].menu_item_id)]_vars

\* A stored item on the first line, an unknown id on the second: 400 naming
\* the second, no order persisted.
C2_Witness ==
    /\ Handled("create_order")
    /\ Len(request[1].payload.items) = 2
    /\ request[1].payload.items[1].menu_item_id \in {Str(n) : n \in MenuIds}
    /\ NotInMenu(request[1].payload.items[2].menu_item_id)
    /\ response[1].status = 400
    /\ response[1].named = Some(request[1].payload.items[2].menu_item_id)
    /\ order = <<>>

\* C5 as stated: a create_order request with a malformed identifier in the
\* menu_item_id of a line or in staff_id is answered 400 "Invalid id" and
\* persists nothing.
C5_InvalidIdRejected ==
    [][Handles("create_order") =>
        LET p == request'[1].payload
        IN (\/ \E i \in DOMAIN p.items : oid_raises(p.items[i].menu_item_id)
            \/ (p.staff_id # None /\ oid_raises(p.staff_id[1]))) =>
              /\ response'[1].status = 400
              /\ response'[1].detail = "Invalid id"
              /\ UNCHANGED store]_vars

\* C6 as stated: create_menu_item with a negative price and create_staff with
\* a pin shorter than 4 or longer than 8 characters are answered 422 and leave
\* the menuitem and staff collections unchanged.
C6_SchemaViolation422 ==
    [][(\/ Handles("create_menu_item") /\ request'[1].payload.price < 0
        \/ Handles("create_staff") /\ (\/ Len(request'[1].payload.pin) < PinMinLength
                                       \/ Len(request'[1].payload.pin) > PinMaxLength)) =>
          /\ response'[1].status = 422
          /\ UNCHANGED <<menuitem, staff>>]_vars

\* C7 as stated: a create_order request whose lines all name stored menu items
\* (by the str() form of their ids), whatever the quantities, is answered 201
\* and persists the order with status "open".
C7_AnyQuantityAccepted ==
    [][Handles("create_order") =>
        LET items == request'[1].payload.items
        IN (\A i \in DOMAIN items : items[i].menu_item_id \in {Str(n) : n \in MenuIds}) =>
              /\ response'[1].status = 201
              /\ Len(order') = Len(order) + 1
              /\ order'[Len(order')].status = "open"]_vars

\* C8 as stated: every persisted order has at least one line item.
C8_NoEmptyOrder == \A i \in DOMAIN order : Len(order[i].items) >= 1

\* C4: login with pin x is answered 200 with the id, name and role of one
\* active staff record whose pin is x if and only if such a record exists, and
\* 401 otherwise (no record with that pin, or only inactive ones); the store is
\* unchanged either way.
C4_LoginIffActivePin ==
    [][Handles("login") =>
        LET x == request'[1].payload.pin
            r == response'[1]
            active == {i \in DOMAIN staff : staff[i].pin = x /\ staff[i].is_active}
        IN /\ UNCHANGED store
           /\ r.status \in {200, 401}
           /\ r.status = 200 <=> active # {}
           /\ r.status = 200 =>
                 \E i \in active :
                    r.body = [id |-> Str(staff[i]._id), name |-> staff[i].name,
                              role |-> staff[i].role]]_vars

\* A login answered 200 although an inactive record with the same pin comes
\* first in the collection.
C4_Witness ==
    /\ Handled("login")
    /\ response[1].status = 200
    /\ Len(staff) >= 2
    /\ staff[1].pin = request[1].payload.pin
    /\ ~staff[1].is_active
    /\ response[1].body.id # Str(staff[1]._id)

SkuIndexes(inv, sku) == {i \in DOMAIN inv : inv[i].sku = sku}

\* C3: with upsert requests served one at a time, the inventory holds exactly
\* one record per sku upserted: the first upsert of a sku creates one record,
\* a later one answers the id of that record and creates none.
C3_OneRecordPerSku ==
    [][Handles("upsert_inventory") =>
        LET sku == request'[1].payload.sku
            before == SkuIndexes(inventory, sku)
            after == SkuIndexes(inventory', sku)
        IN /\ Cardinality(after) = 1
           /\ \A i \in after : response'[1].body.id = Str(inventory'[i]._id)
           /\ \A i \in DOMAIN inventory : inventory'[i]._id = inventory[i]._id
           /\ IF before = {}
              THEN Len(inventory') = Len(inventory) + 1
              ELSE /\ Len(inventory') = Len(inventory)
                   /\ \A i \in before : response'[1].body.id = Str(inventory[i]._id)
           /\ \A i, j \in DOMAIN inventory' :
                 inventory'[i].sku = inventory'[j].sku => i = j]_vars

\* An upsert of the sku of the first of two records, answered with its id.
C3_Witness ==
    /\ Handled("upsert_inventory")
    /\ Len(inventory) = 2
    /\ inventory[1].sku = request[1].payload.sku
    /\ inventory[2].sku # request[1].payload.sku
    /\ response[1].body.id = Str(inventory[1]._id)

\* C10: an upsert on a sku that has a record overwrites that record's
\* quantity, unit and reorder_level with the request's values (unit "unit" and
\* reorder_level empty when the request leaves them out), keeps its id and
\* sku, and leaves every other inventory record and every other collection
\* unchanged.
C10_OverwriteInPlace ==
    [][Handles("upsert_inventory") =>
        LET b == request'[1].payload
            before == SkuIndexes(inventory, b.sku)
        IN before # {} =>
              /\ DOMAIN inventory' = DOMAIN inventory
              /\ \A i \in DOMAIN inventory :
                    IF i \in before
                    THEN inventory'[i] =
                            [_id |-> inventory[i]._id, sku |-> inventory[i].sku,
                             quantity |-> b.quantity,
                             unit |-> IF b.unit = None THEN "unit" ELSE b.unit[1],
                             reorder_level |-> b.reorder_level]
                    ELSE inventory'[i] = inventory[i]
              /\ UNCHANGED <<menuitem, order, staff>>]_vars

\* The first of two records upserted again with unit and reorder_level left
\* out, beside a menu item.
C10_Witness ==
    /\ Handled("upsert_inventory")
    /\ Len(inventory) = 2
    /\ Len(menuitem) >= 1
    /\ inventory[1].sku = request[1].payload.sku
    /\ request[1].payload.unit = None
    /\ request[1].payload.reorder_level = None
    /\ inventory[1].unit = "unit"
    /\ inventory[1].reorder_level = None
    /\ inventory[1].quantity = request[1].payload.quantity

\* C9: the write of an upsert acts on what its own lookup found.  When the
\* lookup found no record the write inserts one with a fresh id, also when
\* another request has inserted that sku since (two records then share the
\* sku); when the lookup found a record the write inserts nothing and answers
\* that record's id.
C9_WriteFollowsStaleLookup ==
    [][\A c \in Clients :
        (upsert[c].pc = "found" /\ upsert'[c].pc = "done") =>
           LET item == upsert[c].item[1]
               existing == upsert[c].existing
           IN IF existing = None
              THEN /\ Len(inventory') = Len(inventory) + 1
                   /\ inventory'[Len(inventory')].sku = item.sku
                   /\ \A i \in DOMAIN inventory :
                         /\ inventory'[i] = inventory[i]
                         /\ inventory[i]._id # inventory'[Len(inventory')]._id
                   /\ upsert'[c].id = Some(Str(inventory'[Len(inventory')]._id))
              ELSE /\ Len(inventory') = Len(inventory)
                   /\ upsert'[c].id = Some(Str(existing[1]._id))]_vars

\* Two requests for one sku, both answered, with two different ids, and two
\* records sharing the sku.
C9_Witness ==
    /\ upsert[1].pc = "done" /\ upsert[2].pc = "done"
    /\ upsert[1].item[1].sku = upsert[2].item[1].sku
    /\ upsert[1].id # upsert[2].id
    /\ Len(inventory) = 2
    /\ inventory[1].sku = inventory[2].sku
    /\ inventory[1]._id # inventory[2]._id
====
